---------------------------- MODULE Spec2Model ----------------------------
(***************************************************************************)
(* Model of Chris_McCathern_Programming13.py: a population table kept in   *)
(* SQLite, seeded with ten cities for 2023, projected forward by a seeded  *)
(* random multiplicative walk, and plotted for one city chosen at a        *)
(* prompt.                                                                 *)
(*                                                                         *)
(* Conventions of the model                                                *)
(*   - a table is the sequence of its rows in rowid order (the order of a  *)
(*     full scan); INSERT OR REPLACE deletes the conflicting row and       *)
(*     appends the new one, as SQLite does for a rowid table;              *)
(*   - a line of text is a sequence of tokens, " " standing for            *)
(*     whitespace; a Python string without outer whitespace is the         *)
(*     sequence of its tokens;                                             *)
(*   - rates are exact rationals: a rate bound is an integer number of     *)
(*     1/RateDen, a drawn rate an integer number of 1/(RateDen*RandMod);   *)
(*   - the generator of module random is a small linear congruential       *)
(*     generator: what is kept of it is that seed() fixes the state and    *)
(*     every random() advances it.                                         *)
(***************************************************************************)
EXTENDS Integers, Sequences, FiniteSets, TLC

\* ------------------------------------------------------------------ bounds
\* simulate_growth calls in one behaviour (all stores together)
MaxSims == 2
\* insert_2023_data calls a caller makes on one file
MaxInserts == 2
\* longest horizon (`years`) a caller passes
MaxYears == 2
\* start_year ranges over BaseYear .. BaseYear + MaxAhead
MaxAhead == 2
\* launches of the script in one behaviour
MaxLaunches == 2

\* --------------------------------------------------------------- constants
BaseYear == 2023
DefaultStartYear == 2024
DefaultYears == 20
DefaultSeed == 42
\* rate bounds are counted in 1/RateDen: -0.01 is -1, 0.03 is 3, -1.0 is -100
RateDen == 100
DefaultRateMin == -1
DefaultRateMax == 3
\* resolution of random.random() in the model: it returns k/RandMod
RandMod == 4

\* ------------------------------------------------------------------- data
\* the dict `cities` of insert_2023_data, in insertion order
cities_2023 ==
  << [city |-> "Jacksonville",    population |-> 985000],
     [city |-> "Miami",           population |-> 451000],
     [city |-> "Tampa",           population |-> 398000],
     [city |-> "Orlando",         population |-> 317000],
     [city |-> "St. Petersburg",  population |-> 261000],
     [city |-> "Hialeah",         population |-> 220000],
     [city |-> "Tallahassee",     population |-> 202000],
     [city |-> "Port St. Lucie",  population |-> 241000],
     [city |-> "Cape Coral",      population |-> 216000],
     [city |-> "Fort Lauderdale", population |-> 184000] >>

CityNames == { cities_2023[i].city : i \in 1..Len(cities_2023) }

\* the bytes of each city name: ORDER BY city compares TEXT bytewise (BINARY)
CityBytes ==
  "Jacksonville" :> <<74, 97, 99, 107, 115, 111, 110, 118, 105, 108, 108, 101>> @@
  "Miami" :> <<77, 105, 97, 109, 105>> @@
  "Tampa" :> <<84, 97, 109, 112, 97>> @@
  "Orlando" :> <<79, 114, 108, 97, 110, 100, 111>> @@
  "St. Petersburg" :> <<83, 116, 46, 32, 80, 101, 116, 101, 114, 115, 98, 117, 114, 103>> @@
  "Hialeah" :> <<72, 105, 97, 108, 101, 97, 104>> @@
  "Tallahassee" :> <<84, 97, 108, 108, 97, 104, 97, 115, 115, 101, 101>> @@
  "Port St. Lucie" :> <<80, 111, 114, 116, 32, 83, 116, 46, 32, 76, 117, 99, 105, 101>> @@
  "Cape Coral" :> <<67, 97, 112, 101, 32, 67, 111, 114, 97, 108>> @@
  "Fort Lauderdale" :> <<70, 111, 114, 116, 32, 76, 97, 117, 100, 101, 114, 100, 97, 108, 101>>

\* ------------------------------------------------------------------- text
\* str.strip(): drop the whitespace at both ends of a line
RECURSIVE LStrip(_)
LStrip(s) == IF s # <<>> /\ Head(s) = " " THEN LStrip(Tail(s)) ELSE s

RECURSIVE RStrip(_)
RStrip(s) ==
  IF s # <<>> /\ s[Len(s)] = " " THEN RStrip(SubSeq(s, 1, Len(s) - 1)) ELSE s

Strip(s) == RStrip(LStrip(s))

\* f"population_{initials}.db"
db_name(initials) == <<"population_">> \o initials \o <<".db">>

\* bytewise comparison of two byte strings (memcmp, then length)
RECURSIVE BytesLess(_, _)
BytesLess(a, b) ==
  IF b = <<>> THEN FALSE
  ELSE IF a = <<>> THEN TRUE
  ELSE IF Head(a) # Head(b) THEN Head(a) < Head(b)
  ELSE BytesLess(Tail(a), Tail(b))

CityLess(c, d) == BytesLess(CityBytes[c], CityBytes[d])

\* ------------------------------------------------------------------ table
Row(c, y, p) == [city |-> c, year |-> y, population |-> p]

HasKey(t, c, y) == \E i \in 1..Len(t) : t[i].city = c /\ t[i].year = y

\* the seeding written with the simulation's conflict policy
InsertOrOverwrite(t, r) ==
  Append(SelectSeq(t, LAMBDA x : ~(x.city = r.city /\ x.year = r.year)), r)

\* INSERT OR IGNORE INTO population ... : nothing on a primary-key conflict
InsertOrIgnore(t, r) == IF HasKey(t, r.city, r.year) THEN t ELSE Append(t, r)

\* INSERT OR REPLACE INTO population ... : the conflicting row is deleted and
\* the new row is inserted with a new rowid
InsertOrReplace(t, r) ==
  Append(SelectSeq(t, LAMBDA x : ~(x.city = r.city /\ x.year = r.year)), r)

\* SELECT city, population FROM population WHERE year = 2023 (a scan)
SelectBase(t) == SelectSeq(t, LAMBDA x : x.year = BaseYear)

\* the cities of a table: SELECT DISTINCT city
Cities(t) == { t[i].city : i \in 1..Len(t) }

\* ORDER BY city: the city whose name compares lowest, then the others
RECURSIVE OrderByCity(_)
OrderByCity(S) ==
  IF S = {} THEN <<>>
  ELSE LET first == CHOOSE c \in S : \A d \in S : ~CityLess(d, c)
       IN  <<first>> \o OrderByCity(S \ {first})

\* SELECT DISTINCT city FROM population ORDER BY city
SelectCities(t) == OrderByCity(Cities(t))

\* the rows of one city: WHERE city = ?
CityRows(t, c) == { t[i] : i \in { j \in 1..Len(t) : t[j].city = c } }

\* ORDER BY year: the row of the lowest year, then the others
RECURSIVE OrderByYear(_)
OrderByYear(S) ==
  IF S = {} THEN <<>>
  ELSE LET first == CHOOSE r \in S : \A q \in S : q.year >= r.year
       IN  <<first>> \o OrderByYear(S \ {first})

\* SELECT year, population FROM population WHERE city = ? ORDER BY year
SelectSeries(t, c) == OrderByYear(CityRows(t, c))

\* -------------------------------------------------------------- generator
\* random.seed(n): the state is a function of n alone
RandSeed(n) == n % RandMod

\* the state after one more random()
RandAdvance(g) == (5 * g + 3) % RandMod

\* random.uniform(a, b) = a + (b - a) * random(), with random() = g/RandMod
\* read off the advanced state g; the result counts 1/(RateDen*RandMod)
Uniform(a, b, g) == a * RandMod + (b - a) * g

\* ------------------------------------------------------------- arithmetic
Max(a, b) == IF a >= b THEN a ELSE b

\* round(n/d) for d > 0, as Python 3 rounds: to nearest, ties to even
Round(n, d) ==
  LET q == n \div d
      r == n % d
  IN  IF 2 * r < d THEN q
      ELSE IF 2 * r > d THEN q + 1
      ELSE IF q % 2 = 0 THEN q ELSE q + 1

\* the step without its floor of 1
GrowthStepNoFloor(population, rate) ==
  Round(population * (RateDen * RandMod + rate), RateDen * RandMod)

\* the step with the rate taken for the multiplier
GrowthStepRateOnly(population, rate) ==
  Max(1, Round(population * rate, RateDen * RandMod))

\* max(1, int(round(population * (1 + growth_rate))))
GrowthStep(population, rate) ==
  Max(1, Round(population * (RateDen * RandMod + rate), RateDen * RandMod))

\* ------------------------------------------------------------- simulation
\* the pass with every year computed from the fetched value (no compounding)
SimulateStepFromBase(st, rows, k, start_year, years, rate_min, rate_max) ==
  LET i    == (k - 1) \div years + 1
      year == start_year + ((k - 1) % years)
      g2 == RandAdvance(st.rng)
      p2 == GrowthStep(rows[i].population, Uniform(rate_min, rate_max, g2))
  IN  [rows |-> InsertOrReplace(st.rows, Row(rows[i].city, year, p2)),
       rng |-> g2, population |-> p2]

\* the pass with the years counted from the year before start_year
SimulateStepEarly(st, rows, k, start_year, years, rate_min, rate_max) ==
  LET i    == (k - 1) \div years + 1
      year == start_year - 1 + ((k - 1) % years)
      population == IF year = start_year - 1 THEN rows[i].population
                    ELSE st.population
      g2 == RandAdvance(st.rng)
      p2 == GrowthStep(population, Uniform(rate_min, rate_max, g2))
  IN  [rows |-> InsertOrReplace(st.rows, Row(rows[i].city, year, p2)),
       rng |-> g2, population |-> p2]

\* the k-th pass through the body of the inner loop of simulate_growth, the
\* passes counted across the fetched rows: row (k-1) \div years + 1, year
\* start_year + (k-1) % years; `population` starts at the row's value on the
\* row's first year and is carried from year to year
SimulateStep(st, rows, k, start_year, years, rate_min, rate_max) ==
  LET i    == (k - 1) \div years + 1
      year == start_year + ((k - 1) % years)
      population == IF year = start_year THEN rows[i].population
                    ELSE st.population
      g2 == RandAdvance(st.rng)
      p2 == GrowthStep(population, Uniform(rate_min, rate_max, g2))
  IN  [rows |-> InsertOrReplace(st.rows, Row(rows[i].city, year, p2)),
       rng |-> g2, population |-> p2]

\* passes lo..hi of the loops, in order: the first half, then the second from
\* where the first ends (halving keeps the nesting shallow; the test on
\* half.rng, always true, only makes the first half be computed first)
RECURSIVE SimulateLoop(_, _, _, _, _, _, _, _)
SimulateLoop(st, rows, lo, hi, start_year, years, rate_min, rate_max) ==
  IF lo > hi THEN st
  ELSE IF lo = hi
  THEN SimulateStep(st, rows, lo, start_year, years, rate_min, rate_max)
  ELSE LET mid  == (lo + hi) \div 2
           half == SimulateLoop(st, rows, lo, mid, start_year, years,
                                rate_min, rate_max)
       IN  IF half.rng >= 0
           THEN SimulateLoop(half, rows, mid + 1, hi, start_year, years,
                             rate_min, rate_max)
           ELSE half

\* the generator left as the last draws left it (no random.seed)
SeededGeneratorStale(g, rng_seed) == g

\* the generator simulate_growth draws from: random.seed(rng_seed)
SeededGenerator(g, rng_seed) == RandSeed(rng_seed)

\* the loops stopping a year short of the horizon
SimulateTableShort(t, g, start_year, years, rate_min, rate_max, rng_seed) ==
  SimulateLoop([rows |-> t, rng |-> SeededGenerator(g, rng_seed),
                population |-> 0],
               SelectBase(t), 1, Len(SelectBase(t)) * Max(years - 1, 0),
               start_year, years - 1, rate_min, rate_max)

\* the loops drawing from the generator as they find it
SimulateTableUnseeded(t, g, start_year, years, rate_min, rate_max, rng_seed) ==
  SimulateLoop([rows |-> t, rng |-> g, population |-> 0],
               SelectBase(t), 1, Len(SelectBase(t)) * Max(years, 0),
               start_year, years, rate_min, rate_max)

\* simulate_growth on table t with the module generator in state g: the
\* rows are fetched first, then the loops run over them
SimulateTable(t, g, start_year, years, rate_min, rate_max, rng_seed) ==
  SimulateLoop([rows |-> t, rng |-> SeededGenerator(g, rng_seed),
                population |-> 0],
               SelectBase(t), 1, Len(SelectBase(t)) * Max(years, 0),
               start_year, years, rate_min, rate_max)

\* the loop of insert_2023_data, from entry i on
RECURSIVE InsertCities(_, _)
InsertCities(t, i) ==
  IF i > Len(cities_2023) THEN t
  ELSE InsertCities(
         InsertOrIgnore(t, Row(cities_2023[i].city, BaseYear,
                               cities_2023[i].population)),
         i + 1)

\* ------------------------------------------------------------------ inputs
\* lines typed at "Enter your initials"
InitialsLines == { <<>>, <<" ">>, <<"WCM">>, <<" ", "AB", " ">> }

\* lines typed at "Type a city name exactly as shown"
ChoiceLines == { <<"Miami">>, <<" ", "Tampa", " ">>, <<"Atlantis">>, <<>> }

\* main(): input(...).strip() or "CM"
InitialsOf(line) == IF Strip(line) = <<>> THEN <<"CM">> ELSE Strip(line)

\* lines the direct callers of show_city_plot type
CallerChoices == { <<"Atlantis", " ">> }

\* the database files a run can name
Stores == { db_name(InitialsOf(l)) : l \in InitialsLines }

\* the file the direct callers of the functions work on
CallerStore == db_name(<<"CM">>)

\* the two files of two independent runs
PairStores == { db_name(<<"CM">>), db_name(<<"AB">>) }

StartYears == BaseYear .. (BaseYear + MaxAhead)
Horizons == 1 .. MaxYears
\* <<rate_min, rate_max, rng_seed>> a caller passes, the rates in 1/RateDen,
\* rate_min >= -1.0: no change, a fixed growth, a fixed decline to nothing,
\* and the default range under two seeds
RateSeeds == { <<0, 0, DefaultSeed>>, <<3, 3, 7>>, <<-100, -100, DefaultSeed>>,
               <<DefaultRateMin, DefaultRateMax, DefaultSeed>>,
               <<DefaultRateMin, DefaultRateMax, 7>> }
RandStates == 0 .. (RandMod - 1)

\* the names bound in the module's namespace once its definitions have run
ModuleNames == { "sqlite3", "plt", "random", "Dict", "Tuple", "Optional",
                 "create_database", "insert_2023_data", "simulate_growth",
                 "show_city_plot", "main", "__name__" }

\* ------------------------------------------------------------------- state
VARIABLES
  db,        \* file name -> [created: the table exists, rows: its rows]
  rng,       \* state of the generator of module random (process-wide)
  args,      \* <<rate_min, rate_max, rng_seed>> the callers of a behaviour pass
  inserts,   \* file name -> number of insert_2023_data calls made on it
  sims,      \* file name -> the simulate_growth calls that found base rows
  out,       \* what the last call printed or plotted
  pc,        \* where the script is: "off" when it is not running
  initials,  \* main's local `initials`
  conn,      \* main's local `conn`: the file it has open, <<>> for none
  status,    \* exit status of the last run of the script, -1 before any ends
  launches   \* runs of the script started so far

vars ==
  <<db, rng, args, inserts, sims, out, pc, initials, conn, status, launches>>
scriptVars == <<pc, initials, conn, status, launches>>

NoOutput == [kind |-> "none", invalid |-> FALSE, title |-> "",
             years |-> <<>>, pops |-> <<>>]

SimCall(sy, n, a, b, sd) ==
  [start_year |-> sy, years |-> n, rate_min |-> a, rate_max |-> b,
   rng_seed |-> sd]

Init ==
  /\ db = [f \in Stores |-> [created |-> FALSE, rows |-> <<>>]]
  /\ rng \in RandStates
  /\ args \in RateSeeds
  /\ inserts = [f \in Stores |-> 0]
  /\ sims = [f \in Stores |-> <<>>]
  /\ out = NoOutput
  /\ pc = "off"
  /\ initials = <<>>
  /\ conn = <<>>
  /\ status = -1
  /\ launches = 0

\* -------------------------------------------------------------- functions
\* create_database: CREATE TABLE IF NOT EXISTS on the named file
create_database(f) ==
  /\ db' = [db EXCEPT ![f].created = TRUE]
  /\ out' = NoOutput
  /\ UNCHANGED <<rng, args, inserts, sims>>

\* insert_2023_data on the open file f
insert_2023_data(f) ==
  /\ db[f].created
  /\ db' = [db EXCEPT ![f].rows = InsertCities(@, 1)]
  /\ inserts' = [inserts EXCEPT ![f] = @ + 1]
  /\ out' = NoOutput
  /\ UNCHANGED <<rng, args, sims>>

\* simulate_growth on the open file f
simulate_growth(f, start_year, years, rate_min, rate_max, rng_seed) ==
  /\ db[f].created
  /\ \E res \in { SimulateTable(db[f].rows, rng, start_year, years,
                                rate_min, rate_max, rng_seed) } :
        /\ db' = [db EXCEPT ![f].rows = res.rows]
        /\ rng' = res.rng
  /\ sims' = IF SelectBase(db[f].rows) = <<>> THEN sims
             ELSE [sims EXCEPT ![f] =
                     Append(@, SimCall(start_year, years, rate_min, rate_max,
                                       rng_seed))]
  /\ out' = NoOutput
  /\ UNCHANGED <<args, inserts>>

\* whether the stripped line `choice` is one of the listed cities
Listed(listed, choice) == \E i \in 1..Len(listed) : choice = <<listed[i]>>

\* the fallback taking the last listed city
ChosenCityLast(listed, choice) ==
  IF Listed(listed, choice) THEN choice[1] ELSE listed[Len(listed)]

\* the city show_city_plot plots for the stripped line `choice`
ChosenCity(listed, choice) ==
  IF Listed(listed, choice) THEN choice[1] ELSE listed[1]

\* plt.plot(years, pops, marker='o') under the title of the city
Plot(city, invalid, data) ==
  [kind |-> "plot", invalid |-> invalid, title |-> city,
   years |-> [i \in 1..Len(data) |-> data[i].year],
   pops |-> [i \in 1..Len(data) |-> data[i].population]]

\* show_city_plot once the cities are listed and `line` is typed
PlotChoice(t, listed, choice) ==
  IF listed = <<>> THEN [NoOutput EXCEPT !.kind = "no cities"]
  ELSE Plot(ChosenCity(listed, choice), ~Listed(listed, choice),
            SelectSeries(t, ChosenCity(listed, choice)))

\* what show_city_plot prints and plots from table t when `line` is typed
PlotOf(t, line) == PlotChoice(t, SelectCities(t), Strip(line))

\* show_city_plot on the open file f, with `line` typed at its prompt
show_city_plot(f, line) ==
  /\ db[f].created
  /\ out' = PlotOf(db[f].rows, line)
  /\ UNCHANGED <<db, rng, args, inserts, sims>>

\* ----------------------------------- the functions, called on one file
CallCreate ==
  /\ pc = "off"
  /\ create_database(CallerStore)
  /\ UNCHANGED scriptVars

CallInsert ==
  /\ pc = "off"
  /\ inserts[CallerStore] < MaxInserts
  /\ insert_2023_data(CallerStore)
  /\ UNCHANGED scriptVars

CallSimulate ==
  /\ pc = "off"
  /\ Len(sims[CallerStore]) < MaxSims
  /\ \E sy \in StartYears, n \in Horizons :
        simulate_growth(CallerStore, sy, n, args[1], args[2], args[3])
  /\ UNCHANGED scriptVars

CallShow ==
  /\ pc = "off"
  /\ \E line \in CallerChoices : show_city_plot(CallerStore, line)
  /\ UNCHANGED scriptVars

Next == CallCreate \/ CallInsert \/ CallSimulate \/ CallShow

Spec == Init /\ [][Next]_vars

\* --------------------------- two independent runs, each on a fresh file
PairCreate ==
  /\ pc = "off"
  /\ \E f \in PairStores : create_database(f)
  /\ UNCHANGED scriptVars

PairInsert ==
  /\ pc = "off"
  /\ \E f \in PairStores : db[f].rows = <<>> /\ insert_2023_data(f)
  /\ UNCHANGED scriptVars

PairSimulate ==
  /\ pc = "off"
  /\ \E f \in PairStores, sy \in StartYears, n \in Horizons :
        /\ sims[f] = <<>>
        /\ simulate_growth(f, sy, n, args[1], args[2], args[3])
  /\ UNCHANGED scriptVars

PairNext == PairCreate \/ PairInsert \/ PairSimulate

PairSpec == Init /\ [][PairNext]_vars

\* -------------------------------------------------------------- the script
\* the interpreter's exit status after executing the expression statement
\* that is the bare name `name`: an unbound name raises NameError, which
\* nothing catches
NameStatement(name) == IF name \in ModuleNames THEN 0 ELSE 1

\* python3 file.py: a new process, its generator seeded from the system
Launch ==
  /\ pc \in {"off", "exited"}
  /\ launches < MaxLaunches
  /\ launches' = launches + 1
  /\ rng' \in RandStates
  /\ pc' = "main"
  /\ initials' = <<>>
  /\ conn' = <<>>
  /\ out' = NoOutput
  /\ UNCHANGED <<db, args, inserts, sims, status>>

\* initials = input("Enter your initials (e.g., WCM): ").strip() or "CM"
MainInput ==
  /\ pc = "main"
  /\ \E line \in InitialsLines : initials' = InitialsOf(line)
  /\ pc' = "create"
  /\ UNCHANGED <<db, rng, args, inserts, sims, out, conn, status, launches>>

\* conn = create_database(initials)
MainCreate ==
  /\ pc = "create"
  /\ create_database(db_name(initials))
  /\ conn' = db_name(initials)
  /\ pc' = "insert"
  /\ UNCHANGED <<initials, status, launches>>

\* insert_2023_data(conn)
MainInsert ==
  /\ pc = "insert"
  /\ insert_2023_data(conn)
  /\ pc' = "simulate"
  /\ UNCHANGED <<initials, conn, status, launches>>

\* simulate_growth(conn), every parameter at its default
MainSimulate ==
  /\ pc = "simulate"
  /\ simulate_growth(conn, DefaultStartYear, DefaultYears, DefaultRateMin,
                     DefaultRateMax, DefaultSeed)
  /\ pc' = "show"
  /\ UNCHANGED <<initials, conn, status, launches>>

\* show_city_plot(conn)
MainShow ==
  /\ pc = "show"
  /\ \E line \in ChoiceLines : show_city_plot(conn, line)
  /\ pc' = "close"
  /\ UNCHANGED <<initials, conn, status, launches>>

\* conn.close(), and main returns
MainClose ==
  /\ pc = "close"
  /\ conn' = <<>>
  /\ pc' = "tail"
  /\ UNCHANGED <<db, rng, args, inserts, sims, out, initials, status, launches>>

\* the statement after the call of main(), the last of the file: `wcm`
ModuleTail ==
  /\ pc = "tail"
  /\ status' = NameStatement("wcm")
  /\ pc' = "exited"
  /\ UNCHANGED <<db, rng, args, inserts, sims, out, initials, conn, launches>>

MainNext ==
  \/ Launch \/ MainInput \/ MainCreate \/ MainInsert \/ MainSimulate
  \/ MainShow \/ MainClose \/ ModuleTail

MainInit == Init /\ args = <<DefaultRateMin, DefaultRateMax, DefaultSeed>>

MainSpec == MainInit /\ [][MainNext]_vars

\* ------------------------------------------------------------------ claims
\* helpers of the statements below
RowSet(t) == { t[i] : i \in 1..Len(t) }

HasRow(t, c, y) == \E r \in RowSet(t) : r.city = c /\ r.year = y

\* the value stored for (c, y), 0 when there is no such row
Val(t, c, y) ==
  IF HasRow(t, c, y)
  THEN (CHOOSE r \in RowSet(t) : r.city = c /\ r.year = y).population
  ELSE 0

\* number of rows of city c
RowCount(t, c) == Cardinality({ i \in 1..Len(t) : t[i].city = c })

YearsOf(t, c) == { r.year : r \in { x \in RowSet(t) : x.city = c } }

SeedValue(c) ==
  (CHOOSE e \in { cities_2023[i] : i \in 1..Len(cities_2023) } :
     e.city = c).population

UniqueKeys(t) ==
  \A i, j \in 1..Len(t) :
    (t[i].city = t[j].city /\ t[i].year = t[j].year) => i = j

Last(s) == s[Len(s)]

\* the years a call writes: range(start_year, start_year + years)
Written(call) == call.start_year .. (call.start_year + call.years - 1)

\* v = max(1, round(p * (1 + r/RateDen))), round to nearest, ties to even,
\* said without the operators of the model: v >= 2 is the nearest integer
\* (the even one on a tie), v = 1 stands for every product below 3/2
IsStepOf(v, p, r) ==
  LET n == p * (RateDen + r)
      d == RateDen
      e == IF v * d >= n THEN v * d - n ELSE n - v * d
  IN  \/ v >= 2 /\ 2 * e <= d /\ (2 * e = d => v % 2 = 0)
      \/ v = 1 /\ 2 * n < 3 * d

\* C1 -- Determinism: two runs of simulate_growth with the same seed, start
\* year, horizon and rate bounds, each on its own freshly seeded file, leave
\* identical tables, whatever state the generator was in before each run.
C1_Determinism ==
  \A f, h \in PairStores :
    (sims[f] # <<>> /\ sims[f] = sims[h]) => db[f].rows = db[h].rows

C1_Witness ==
  /\ args[1] < args[2]
  /\ sims[db_name(<<"CM">>)] # <<>>
  /\ sims[db_name(<<"CM">>)] = sims[db_name(<<"AB">>)]
  /\ sims[db_name(<<"CM">>)][1].years = MaxYears
  /\ db[db_name(<<"AB">>)].rows = db[db_name(<<"CM">>)].rows
  /\ \E c \in CityNames :
       Val(db[db_name(<<"CM">>)].rows, c, sims[db_name(<<"CM">>)][1].start_year)
         # SeedValue(c)

\* C2 -- Floor: every row of every table has a value of at least 1, and the
\* step itself yields at least 1 from any value from 0 up under every rate
\* the bounds of the behaviour can draw (rate_min >= -1.0).
C2_Floor ==
  /\ \A f \in Stores : \A r \in RowSet(db[f].rows) : r.population >= 1
  /\ \A p \in 0..3, g \in RandStates :
       GrowthStep(p, Uniform(args[1], args[2], g)) >= 1

C2_Witness ==
  /\ args[1] = -RateDen
  /\ sims[CallerStore] # <<>>
  /\ Val(db[CallerStore].rows, "Jacksonville",
         Last(sims[CallerStore]).start_year) = 1

\* C3 (as claimed) -- after seeding and one run of simulate_growth with any
\* start_year and horizon, every city has exactly horizon + 1 rows, of the
\* years BaseYear .. BaseYear + horizon.
C3_AnyStartYear ==
  \A f \in Stores :
    Len(sims[f]) = 1 =>
      \A c \in CityNames :
        /\ RowCount(db[f].rows, c) = sims[f][1].years + 1
        /\ YearsOf(db[f].rows, c) = BaseYear .. (BaseYear + sims[f][1].years)

\* C3 (amended) -- after seeding and one run of simulate_growth with
\* start_year = 2024, the year after the base year, and any horizon, every
\* city has exactly horizon + 1 rows, of the years 2023 .. 2023 + horizon.
C3_SeriesComplete ==
  \A f \in Stores :
    (Len(sims[f]) = 1 /\ sims[f][1].start_year = BaseYear + 1) =>
      \A c \in CityNames :
        /\ RowCount(db[f].rows, c) = sims[f][1].years + 1
        /\ YearsOf(db[f].rows, c) = BaseYear .. (BaseYear + sims[f][1].years)

C3_Witness ==
  /\ Len(sims[CallerStore]) = 1
  /\ sims[CallerStore][1].start_year = BaseYear + 1
  /\ sims[CallerStore][1].years = MaxYears
  /\ RowCount(db[CallerStore].rows, "Miami") = MaxYears + 1

\* C4 (as claimed) -- whatever start_year and horizon the runs had, a seeded
\* table holds the base-year row of every city with its seeded value.
C4_SeedRowsKept ==
  \A f \in Stores :
    inserts[f] >= 1 =>
      \A c \in CityNames : Val(db[f].rows, c, BaseYear) = SeedValue(c)

\* C4 (amended) -- as long as no run wrote the base year (2023 outside
\* start_year .. start_year + horizon - 1 for every run, as with any
\* start_year above 2023), a seeded table holds the base-year row of every
\* city with its seeded value.
C4_SeedRowsKeptOutsideRange ==
  \A f \in Stores :
    (inserts[f] >= 1 /\
     \A k \in 1..Len(sims[f]) : BaseYear \notin Written(sims[f][k])) =>
      \A c \in CityNames :
        /\ Val(db[f].rows, c, BaseYear) = SeedValue(c)
        /\ RowCount(SelectBase(db[f].rows), c) = 1

C4_Witness ==
  /\ args[1] # 0
  /\ Len(sims[CallerStore]) = MaxSims
  /\ \A k \in 1..MaxSims : BaseYear \notin Written(sims[CallerStore][k])
  /\ Val(db[CallerStore].rows, "Tampa", BaseYear) = 398000
  /\ Val(db[CallerStore].rows, "Tampa", BaseYear + 1) # 398000

\* C5 -- Idempotent seeding: a call of insert_2023_data on a file the seeder
\* has already run on, simulated or not, leaves the file as it was, with one
\* row for each (city, year).
C5_SeedingIdempotent ==
  [][\A f \in Stores :
       (inserts[f] >= 1 /\ inserts'[f] = inserts[f] + 1) =>
         (db'[f] = db[f] /\ UniqueKeys(db'[f].rows))]_vars

C5_Witness ==
  /\ inserts[CallerStore] >= 2
  /\ sims[CallerStore] # <<>>
  /\ BaseYear \in Written(sims[CallerStore][1])
  /\ Val(db[CallerStore].rows, "Miami", BaseYear) # 451000

\* C6 (as claimed) -- a run of simulate_growth with the seed and the
\* parameters of the run before it on the same file leaves the table of
\* (city, year, value) rows as that run left it.
C6_RerunSameTable ==
  [][\A f \in Stores :
       (sims[f] # <<>> /\ sims'[f] = Append(sims[f], Last(sims[f]))) =>
         RowSet(db'[f].rows) = RowSet(db[f].rows)]_vars

\* C6 (amended) -- a run of simulate_growth with the seed and the parameters
\* of the run before it on the same file leaves the table of (city, year,
\* value) rows as that run left it, provided the years it writes do not
\* include the base year 2023 (as with the default start_year 2024).
C6_RerunSameTableOutsideBase ==
  [][\A f \in Stores :
       (/\ sims[f] # <<>>
        /\ sims'[f] = Append(sims[f], Last(sims[f]))
        /\ BaseYear \notin Written(Last(sims[f]))) =>
         RowSet(db'[f].rows) = RowSet(db[f].rows)]_vars

C6_Witness ==
  /\ args[1] < args[2]
  /\ Len(sims[CallerStore]) = 2
  /\ sims[CallerStore][1] = sims[CallerStore][2]
  /\ sims[CallerStore][1].years = MaxYears
  /\ BaseYear \notin Written(sims[CallerStore][1])

\* C7 -- Compounding: under a one-point rate range r, a run gives every city
\* max(1, round(V * (1 + r))) for its first year, V being the base-year value
\* the run found, and for every later year max(1, round(P * (1 + r))), P
\* being the value of the year before.
C7_Compounding ==
  [][\A f \in Stores :
       (sims'[f] # sims[f] /\ args[1] = args[2]) =>
         \A c \in CityNames :
           /\ IsStepOf(Val(db'[f].rows, c, Last(sims'[f]).start_year),
                       Val(db[f].rows, c, BaseYear), args[1])
           /\ \A y \in Written(Last(sims'[f])) \ {Last(sims'[f]).start_year} :
                IsStepOf(Val(db'[f].rows, c, y), Val(db'[f].rows, c, y - 1),
                         args[1])]_vars

C7_Witness ==
  /\ args[1] = 3 /\ args[2] = 3
  /\ Len(sims[CallerStore]) = 1
  /\ sims[CallerStore][1].start_year = DefaultStartYear
  /\ Val(db[CallerStore].rows, "Jacksonville", 2024) = 1014550
  /\ Val(db[CallerStore].rows, "Jacksonville", 2025) = 1044986

\* C8 -- Zero rate: when every run draws from the one-point range 0, every
\* row a run writes holds the seeded value of its city, in every year of the
\* horizon: 985000 for Jacksonville.
C8_ZeroRate ==
  (args[1] = 0 /\ args[2] = 0) =>
    \A f \in Stores : \A r \in RowSet(db[f].rows) :
      r.population = SeedValue(r.city)

C8_Witness ==
  /\ args[1] = 0 /\ args[2] = 0
  /\ sims[CallerStore] # <<>>
  /\ Last(sims[CallerStore]).years = MaxYears
  /\ \A y \in Written(Last(sims[CallerStore])) :
       /\ HasRow(db[CallerStore].rows, "Jacksonville", y)
       /\ Val(db[CallerStore].rows, "Jacksonville", y) = 985000

\* C9 -- Fallback selection: when show_city_plot has plotted after a choice
\* that names no listed city, the plot is of the city whose name compares
\* lowest, and it holds all the rows of that city, at least one, in
\* ascending order of year.
C9_Fallback ==
  (out.kind = "plot" /\ out.invalid) =>
    /\ out.title \in Cities(db[CallerStore].rows)
    /\ \A c \in Cities(db[CallerStore].rows) : ~CityLess(c, out.title)
    /\ Len(out.years) >= 1
    /\ Len(out.years) = RowCount(db[CallerStore].rows, out.title)
    /\ Len(out.pops) = Len(out.years)
    /\ \A i \in 1..Len(out.years) :
         Row(out.title, out.years[i], out.pops[i])
           \in RowSet(db[CallerStore].rows)
    /\ \A i \in 1..(Len(out.years) - 1) : out.years[i] < out.years[i + 1]

\* the plot after a wrong choice, of a city whose rows do not lie in
\* ascending order of year in the table
C9_Witness ==
  /\ out.kind = "plot" /\ out.invalid
  /\ out.title = "Cape Coral"
  /\ Len(out.years) >= 3
  /\ \E i, j \in 1..Len(db[CallerStore].rows) :
       /\ i < j
       /\ db[CallerStore].rows[i].city = "Cape Coral"
       /\ db[CallerStore].rows[j].city = "Cape Coral"
       /\ db[CallerStore].rows[i].year > db[CallerStore].rows[j].year

\* C10 -- Exit status: every run of the script that has ended, ended with
\* exit status 0.
C10_ExitZero == pc = "exited" => status = 0

=============================================================================
